---- MODULE Spec2Model ----
(***************************************************************************)
(* Conway's Game of Life on a finite grid (package conway, class           *)
(* FiniteGrid): the (N+2)x(N+2) state buffer with its ring of ghost cells, *)
(* the three boundary conditions, the evolution loop and the pickle        *)
(* snapshot.  One FiniteGrid object is modelled; a Python string is a      *)
(* tuple of one-character strings, so that str.startswith and == are       *)
(* computed as Python computes them.                                       *)
(***************************************************************************)
EXTENDS Integers, Sequences, FiniteSets, TLC

\* ------------------------------------------------------------- bounds
MaxN == 2          \* largest N handed to the constructor
MaxNeg == 3        \* smallest N handed to the constructor is -MaxNeg
MaxSteps == 2      \* largest n_generations handed to evolve
MaxGen == 3        \* evolve is not called when generation could pass this
MaxNegSteps == 1   \* smallest n_generations handed to evolve is -MaxNegSteps
MaxLive == 3       \* most live cells drawn for the grid of the blinker test
MaxGhostLive == 1  \* most live ghost cells in a buffer the caller has assigned

\* the N of the grid of test_evolve1: FiniteGrid(3)
BlinkerN == 3

\* ------------------------------------------------------------- strings
ZERO == <<"z", "e", "r", "o">>
REFLECT == <<"r", "e", "f", "l", "e", "c", "t">>
PERIODIC == <<"p", "e", "r", "i", "o", "d", "i", "c">>

\* FiniteGrid.boundary_conditions
boundary_conditions == <<ZERO, REFLECT, PERIODIC>>

\* the default value of a parameter whose default is None (no string has a
\* character "None")
None == <<"None">>

\* an attribute holding None, or not yet bound, where an array is expected
NoArray == <<>>

\* the default symbols, ' X'
DefaultSymbols == <<" ", "X">>

\* str.startswith: s.startswith(prefix)
startswith(s, prefix) ==
    /\ Len(prefix) <= Len(s)
    /\ SubSeq(s, 1, Len(prefix)) = prefix

\* boundary strings handed to the constructor and to apply_bc: the three
\* names, proper prefixes of each, the empty string, the docstring's
\* 'reflecting', and a string that is no prefix of any name
BoundaryInputs ==
    { ZERO, REFLECT, PERIODIC,
      <<"z">>, <<"r", "e", "f">>, <<"p">>, <<>>,
      REFLECT \o <<"i", "n", "g">>, <<"x">> }

SizeInputs == (0 - MaxNeg)..MaxN

\* ------------------------------------------------------------- arrays
\* indices of an axis of an (n+2)x(n+2) array, and the slice 1:n+1 of it
Axis(n) == 0..(n + 1)
Inner(n) == 1..n
Cells(n) == Axis(n) \X Axis(n)
InteriorCells(n) == Inner(n) \X Inner(n)

\* numpy accepts the integer index k on an axis of length size
ValidIndex(k, size) == (0 - size) <= k /\ k < size

\* the outcome of a call: the exception raised ("none" if it returned) and
\* the buffer it leaves
Outcome(e, s) == [err |-> e, states |-> s]

\* np.sum(a)
RECURSIVE SumOver(_, _)
SumOver(a, D) ==
    IF D = {} THEN 0
    ELSE LET p == CHOOSE q \in D : TRUE
         IN a[p] + SumOver(a, D \ {p})

np_sum(a) == SumOver(a, DOMAIN a)

\* np.zeros_like(a, dtype=int)
zeros_like(a) == [p \in DOMAIN a |-> 0]

\* ------------------------------------------------------------- boundary conditions
\* apply_0bc with the interior row 1 cleared instead of the ghost row 0
apply_0bc_first_row(n, s) ==
    IF ~(ValidIndex(0, n + 2) /\ ValidIndex(n + 1, n + 2))
    THEN Outcome("IndexError", s)
    ELSE LET s1 == [p \in DOMAIN s |-> IF p[2] = 0 THEN 0 ELSE s[p]]
             s2 == [p \in DOMAIN s |-> IF p[2] = n + 1 THEN 0 ELSE s1[p]]
             s3 == [p \in DOMAIN s |->
                      IF p[1] = 1 /\ p[2] \in Inner(n) THEN 0 ELSE s2[p]]
             s4 == [p \in DOMAIN s |->
                      IF p[1] = n + 1 /\ p[2] \in Inner(n) THEN 0 ELSE s3[p]]
         IN Outcome("none", s4)

\* FiniteGrid.apply_0bc
apply_0bc(n, s) ==
    IF ~(ValidIndex(0, n + 2) /\ ValidIndex(n + 1, n + 2))
    THEN Outcome("IndexError", s)
    ELSE LET s1 == [p \in DOMAIN s |-> IF p[2] = 0 THEN 0 ELSE s[p]]
             s2 == [p \in DOMAIN s |-> IF p[2] = n + 1 THEN 0 ELSE s1[p]]
             s3 == [p \in DOMAIN s |->
                      IF p[1] = 0 /\ p[2] \in Inner(n) THEN 0 ELSE s2[p]]
             s4 == [p \in DOMAIN s |->
                      IF p[1] = n + 1 /\ p[2] \in Inner(n) THEN 0 ELSE s3[p]]
         IN Outcome("none", s4)

\* apply_rbc with row 0 copied from the ghost row N+1 instead of row 1
apply_rbc_ghost_row(n, s) ==
    IF ~(\A k \in {0, 1, n, n + 1} : ValidIndex(k, n + 2))
    THEN Outcome("IndexError", s)
    ELSE LET s1 == [p \in DOMAIN s |->
                      IF p[2] = 0 THEN s[<<p[1], 1>>] ELSE s[p]]
             s2 == [p \in DOMAIN s |->
                      IF p[2] = n + 1 THEN s1[<<p[1], n>>] ELSE s1[p]]
             s3 == [p \in DOMAIN s |->
                      IF p[1] = 0 THEN s2[<<n + 1, p[2]>>] ELSE s2[p]]
             s4 == [p \in DOMAIN s |->
                      IF p[1] = n + 1 THEN s3[<<n, p[2]>>] ELSE s3[p]]
         IN Outcome("none", s4)

\* apply_rbc with the ghost rows copied over the interior columns only, as
\* apply_0bc and apply_pbc slice them
apply_rbc_inner_rows(n, s) ==
    IF ~(\A k \in {0, 1, n, n + 1} : ValidIndex(k, n + 2))
    THEN Outcome("IndexError", s)
    ELSE LET s1 == [p \in DOMAIN s |->
                      IF p[2] = 0 THEN s[<<p[1], 1>>] ELSE s[p]]
             s2 == [p \in DOMAIN s |->
                      IF p[2] = n + 1 THEN s1[<<p[1], n>>] ELSE s1[p]]
             s3 == [p \in DOMAIN s |->
                      IF p[1] = 0 /\ p[2] \in Inner(n)
                      THEN s2[<<1, p[2]>>] ELSE s2[p]]
             s4 == [p \in DOMAIN s |->
                      IF p[1] = n + 1 /\ p[2] \in Inner(n)
                      THEN s3[<<n, p[2]>>] ELSE s3[p]]
         IN Outcome("none", s4)

\* FiniteGrid.apply_rbc
apply_rbc(n, s) ==
    IF ~(\A k \in {0, 1, n, n + 1} : ValidIndex(k, n + 2))
    THEN Outcome("IndexError", s)
    ELSE LET s1 == [p \in DOMAIN s |->
                      IF p[2] = 0 THEN s[<<p[1], 1>>] ELSE s[p]]
             s2 == [p \in DOMAIN s |->
                      IF p[2] = n + 1 THEN s1[<<p[1], n>>] ELSE s1[p]]
             s3 == [p \in DOMAIN s |->
                      IF p[1] = 0 THEN s2[<<1, p[2]>>] ELSE s2[p]]
             s4 == [p \in DOMAIN s |->
                      IF p[1] = n + 1 THEN s3[<<n, p[2]>>] ELSE s3[p]]
         IN Outcome("none", s4)

\* apply_pbc with the corner [0,0] copied from [1,1] instead of [N,N]
apply_pbc_near_corner(n, s) ==
    IF ~(\A k \in {0, 1, n, n + 1} : ValidIndex(k, n + 2))
    THEN Outcome("IndexError", s)
    ELSE LET s1 == [p \in DOMAIN s |->
                      IF p[1] \in Inner(n) /\ p[2] = 0
                      THEN s[<<p[1], n>>] ELSE s[p]]
             s2 == [p \in DOMAIN s |->
                      IF p[1] \in Inner(n) /\ p[2] = n + 1
                      THEN s1[<<p[1], 1>>] ELSE s1[p]]
             s3 == [p \in DOMAIN s |->
                      IF p[1] = 0 /\ p[2] \in Inner(n)
                      THEN s2[<<n, p[2]>>] ELSE s2[p]]
             s4 == [p \in DOMAIN s |->
                      IF p[1] = n + 1 /\ p[2] \in Inner(n)
                      THEN s3[<<1, p[2]>>] ELSE s3[p]]
             s5 == [s4 EXCEPT ![<<0, 0>>] = s4[<<1, 1>>]]
             s6 == [s5 EXCEPT ![<<n + 1, n + 1>>] = s5[<<1, 1>>]]
             s7 == [s6 EXCEPT ![<<0, n + 1>>] = s6[<<n, 1>>]]
             s8 == [s7 EXCEPT ![<<n + 1, 0>>] = s7[<<1, n>>]]
         IN Outcome("none", s8)

\* apply_pbc without the assignment of the four corners
apply_pbc_edges_only(n, s) ==
    IF ~(\A k \in {0, 1, n, n + 1} : ValidIndex(k, n + 2))
    THEN Outcome("IndexError", s)
    ELSE LET s1 == [p \in DOMAIN s |->
                      IF p[1] \in Inner(n) /\ p[2] = 0
                      THEN s[<<p[1], n>>] ELSE s[p]]
             s2 == [p \in DOMAIN s |->
                      IF p[1] \in Inner(n) /\ p[2] = n + 1
                      THEN s1[<<p[1], 1>>] ELSE s1[p]]
             s3 == [p \in DOMAIN s |->
                      IF p[1] = 0 /\ p[2] \in Inner(n)
                      THEN s2[<<n, p[2]>>] ELSE s2[p]]
             s4 == [p \in DOMAIN s |->
                      IF p[1] = n + 1 /\ p[2] \in Inner(n)
                      THEN s3[<<1, p[2]>>] ELSE s3[p]]
         IN Outcome("none", s4)

\* FiniteGrid.apply_pbc
apply_pbc(n, s) ==
    IF ~(\A k \in {0, 1, n, n + 1} : ValidIndex(k, n + 2))
    THEN Outcome("IndexError", s)
    ELSE LET \* edges
             s1 == [p \in DOMAIN s |->
                      IF p[1] \in Inner(n) /\ p[2] = 0
                      THEN s[<<p[1], n>>] ELSE s[p]]
             s2 == [p \in DOMAIN s |->
                      IF p[1] \in Inner(n) /\ p[2] = n + 1
                      THEN s1[<<p[1], 1>>] ELSE s1[p]]
             s3 == [p \in DOMAIN s |->
                      IF p[1] = 0 /\ p[2] \in Inner(n)
                      THEN s2[<<n, p[2]>>] ELSE s2[p]]
             s4 == [p \in DOMAIN s |->
                      IF p[1] = n + 1 /\ p[2] \in Inner(n)
                      THEN s3[<<1, p[2]>>] ELSE s3[p]]
             \* corners
             s5 == [s4 EXCEPT ![<<0, 0>>] = s4[<<n, n>>]]
             s6 == [s5 EXCEPT ![<<n + 1, n + 1>>] = s5[<<1, 1>>]]
             s7 == [s6 EXCEPT ![<<0, n + 1>>] = s6[<<n, 1>>]]
             s8 == [s7 EXCEPT ![<<n + 1, 0>>] = s7[<<1, n>>]]
         IN Outcome("none", s8)

\* the dispatch of FiniteGrid.apply_bc on self.bc, by equality
dispatch_bc(n, s, mode) ==
    IF mode = ZERO THEN apply_0bc(n, s)
    ELSE IF mode = REFLECT THEN apply_rbc(n, s)
    ELSE IF mode = PERIODIC THEN apply_pbc(n, s)
    ELSE Outcome("ValueError", s)

\* ------------------------------------------------------------- one generation
\* a counting pass that leaves out the neighbour at [i+1,j+1]
count_neighbours_but_one(n, s, c) ==
    [p \in DOMAIN c |->
        IF p \in InteriorCells(n)
        THEN LET i == p[1]
                 j == p[2]
             IN   s[<<i - 1, j - 1>>] + s[<<i - 1, j>>] + s[<<i - 1, j + 1>>]
                + s[<<i, j - 1>>] + s[<<i, j + 1>>]
                + s[<<i + 1, j - 1>>] + s[<<i + 1, j>>]
        ELSE c[p]]

\* the counting pass of FiniteGrid.evolve: counts[i,j] of every interior cell
count_neighbours(n, s, c) ==
    [p \in DOMAIN c |->
        IF p \in InteriorCells(n)
        THEN LET i == p[1]
                 j == p[2]
             IN   s[<<i - 1, j - 1>>] + s[<<i - 1, j>>] + s[<<i - 1, j + 1>>]
                + s[<<i, j - 1>>] + s[<<i, j + 1>>]
                + s[<<i + 1, j - 1>>] + s[<<i + 1, j>>] + s[<<i + 1, j + 1>>]
        ELSE c[p]]

\* the mutation pass with a live cell dying only of isolation (count < 2)
apply_rule_no_overcrowding(n, s, c) ==
    [p \in DOMAIN s |->
        IF p \in InteriorCells(n)
        THEN IF s[p] = 1
             THEN (IF c[p] < 2 THEN 0 ELSE s[p])
             ELSE (IF c[p] = 3 THEN 1 ELSE s[p])
        ELSE s[p]]

\* the mutation pass with a cell born as its count of neighbours
apply_rule_birth_count(n, s, c) ==
    [p \in DOMAIN s |->
        IF p \in InteriorCells(n)
        THEN IF s[p] = 1
             THEN (IF ~(c[p] \in {2, 3}) THEN 0 ELSE s[p])
             ELSE (IF c[p] = 3 THEN c[p] ELSE s[p])
        ELSE s[p]]

\* the mutation pass of FiniteGrid.evolve
apply_rule(n, s, c) ==
    [p \in DOMAIN s |->
        IF p \in InteriorCells(n)
        THEN IF s[p] = 1
             THEN (IF ~(c[p] \in {2, 3}) THEN 0 ELSE s[p])
             ELSE (IF c[p] = 3 THEN 1 ELSE s[p])
        ELSE s[p]]

\* ------------------------------------------------------------- pickle
\* there is no pickle file
NoFile == <<>>

\* the rows of a square array in C order, as pickle writes an ndarray, with
\* the length of its axes
pickle_array(a) ==
    LET shape == Cardinality({p[1] : p \in DOMAIN a})
    IN [shape |-> shape,
        data |-> [k \in 1..(shape * shape) |->
                    a[<<(k - 1) \div shape, (k - 1) % shape>>]]]

\* the array pickle rebuilds from the length of its axes and its rows
unpickle_array(b) ==
    [p \in (0..(b.shape - 1)) \X (0..(b.shape - 1)) |->
        b.data[p[1] * b.shape + p[2] + 1]]

\* pickle.dump(self, file): the class and the attribute dictionary of the
\* object, whose counts dump has set to None
pickle_dump(n, s, mode, g, sym) ==
    [class |-> "FiniteGrid", N |-> n, states |-> pickle_array(s), bc |-> mode,
     generation |-> g, counts |-> NoArray, symbols |-> sym]

\* pickle.load(file): the attribute dictionary of the pickled object
pickle_load(f) ==
    [N |-> f.N, states |-> unpickle_array(f.states), bc |-> f.bc,
     generation |-> f.generation, counts |-> f.counts, symbols |-> f.symbols]

\* self.generation counted once per requested step still pending
next_generation_by_pending(g, pending) == g + pending

\* self.generation += 1, in the iteration that starts with pending steps to go
next_generation(g, pending) == g + 1

\* a while that also runs its body with no step left to do
loop_continues_at_zero(n) == n >= 0

\* the condition of the while of FiniteGrid.evolve: n_generations > 0
loop_continues(n) == n > 0

\* the rows print and curse write: s += self.symbols[self.states[i,j]]
render_rows(n, s, sym, boundary) ==
    LET irange == IF boundary THEN 0..(n + 1) ELSE 1..n
    IN [i \in irange |->
          [j \in irange |-> sym[s[<<i, j>>] + 1]]]

\* a rendering that needs draw, whether or not a screen is given
render_call_draw_only(c, d) == IF d THEN "print" ELSE "none"

\* what the end of an iteration of evolve calls: self.curse when a screen is
\* given, else self.print when draw, else nothing
render_call(c, d) == IF c THEN "curse" ELSE IF d THEN "print" ELSE "none"

\* ------------------------------------------------------------- state
VARIABLES
    constructed,      \* a FiniteGrid object exists
    N,                \* self.N
    states,           \* self.states
    bc,               \* self.bc
    generation,       \* self.generation
    counts,           \* self.counts (NoArray: None)
    symbols,          \* self.symbols
    pc,               \* "idle", or "loop": at the head of evolve's while
    n_generations,    \* evolve's parameter, counted down
    draw,             \* evolve's parameter
    stop_if_static,   \* evolve's parameter
    curse,            \* evolve's parameter: a screen was given
    generations,      \* evolve's local of that name: {} unbound, {0} bound to 0
    previous_states,  \* evolve's local (NoArray: unbound)
    generation0,      \* history: self.generation when evolve was entered
    completed,        \* history: iterations of the while completed in this call
    rendered,         \* history: what was drawn in this call, in order
    err,              \* the exception the last call raised, "none" if it returned
    req,              \* history: the last call and its arguments
    file,             \* the pickle file (NoFile: there is none)
    dumped            \* history: the attributes of the object last dumped

grid == <<constructed, N, states, bc, generation, counts, symbols>>
frame == <<pc, n_generations, draw, stop_if_static, curse, generations,
           previous_states, generation0, completed, rendered>>
disk == <<file, dumped>>
vars == <<grid, frame, err, req, disk>>

\* the last call: the operation, the N and the boundary string it was given,
\* and whether it is an apply_bc that re-applies the mode a successful
\* apply_bc has just applied; steps is the n_generations an evolve was given,
\* before the buffer an apply_bc found
Request(op, n, b, again) ==
    [op |-> op, N |-> n, boundary |-> b, repeat |-> again,
     steps |-> 0, before |-> NoArray]

NoFrame ==
    /\ pc' = "idle"
    /\ n_generations' = 0
    /\ draw' = FALSE
    /\ stop_if_static' = FALSE
    /\ curse' = FALSE
    /\ generations' = {}
    /\ previous_states' = NoArray
    /\ generation0' = 0
    /\ completed' = 0
    /\ rendered' = <<>>

Init ==
    /\ constructed = FALSE
    /\ N = 0
    /\ states = NoArray
    /\ bc = <<>>
    /\ generation = 0
    /\ counts = NoArray
    /\ symbols = DefaultSymbols
    /\ pc = "idle"
    /\ n_generations = 0
    /\ draw = FALSE
    /\ stop_if_static = FALSE
    /\ curse = FALSE
    /\ generations = {}
    /\ previous_states = NoArray
    /\ generation0 = 0
    /\ completed = 0
    /\ rendered = <<>>
    /\ err = "none"
    /\ req = Request("none", 0, <<>>, FALSE)
    /\ file = NoFile
    /\ dumped = NoFile

\* ------------------------------------------------------------- construction
\* rng.integers(0, high=2, size=(n+2, n+2)): every interior is drawn; the ring
\* of ghost cells, which each boundary condition overwrites, is drawn all 0 or
\* all 1
RandomBuffers(n) ==
    { [p \in Cells(n) |-> IF p \in InteriorCells(n) THEN interior[p] ELSE g] :
        interior \in [InteriorCells(n) -> {0, 1}], g \in {0, 1} }

\* self.apply_rbv(): FiniteGrid defines no such method
apply_rbv(n, s) == Outcome("AttributeError", s)

\* the boundary dispatch of FiniteGrid.__init__, by str.startswith
init_bc(n, s, boundary) ==
    IF startswith(ZERO, boundary)
    THEN [bc |-> ZERO, out |-> apply_0bc(n, s)]
    ELSE IF startswith(REFLECT, boundary)
    THEN [bc |-> REFLECT, out |-> apply_rbv(n, s)]
    ELSE IF startswith(PERIODIC, boundary)
    THEN [bc |-> PERIODIC, out |-> apply_pbc(n, s)]
    ELSE [bc |-> boundary, out |-> Outcome("ValueError", s)]

\* FiniteGrid.__init__(N=n, boundary=boundary), load=False, dump=False.  An
\* exception leaves no object behind.
FiniteGrid_init(n, boundary, s0) ==
    /\ pc = "idle"
    /\ ~constructed
    /\ req' = Request("init", n, boundary, FALSE)
    /\ UNCHANGED <<frame, disk>>
    /\ IF n + 2 < 0
       THEN /\ err' = "ValueError"
            /\ UNCHANGED grid
       ELSE LET r == init_bc(n, s0, boundary)
            IN IF r.out.err # "none"
               THEN /\ err' = r.out.err
                    /\ UNCHANGED grid
               ELSE /\ constructed' = TRUE
                    /\ N' = n
                    /\ states' = r.out.states
                    /\ bc' = r.bc
                    /\ generation' = 0
                    /\ counts' = NoArray
                    /\ symbols' = DefaultSymbols
                    /\ err' = "none"

\* ------------------------------------------------------------- apply_bc
\* FiniteGrid.apply_bc(bc=arg)
apply_bc(arg) ==
    /\ pc = "idle"
    /\ constructed
    /\ LET mode == IF arg # None THEN arg ELSE bc
           r == dispatch_bc(N, states, mode)
       IN /\ bc' = mode
          /\ states' = r.states
          /\ err' = r.err
    /\ req' = [Request("apply_bc", N, arg,
                       req.op = "apply_bc" /\ err = "none"
                         /\ (arg = None \/ arg = bc))
                EXCEPT !.before = states]
    /\ UNCHANGED <<constructed, N, generation, counts, symbols, frame, disk>>

\* ------------------------------------------------------------- evolve
\* FiniteGrid.evolve(n_generations=n, draw=d, stop_if_static=sis, curse=c):
\* entry, up to the head of the while
evolve(n, d, sis, c) ==
    /\ pc = "idle"
    /\ constructed
    /\ generation + n <= MaxGen
    /\ counts' = IF counts = NoArray THEN zeros_like(states) ELSE counts
    /\ pc' = "loop"
    /\ n_generations' = n
    /\ draw' = d
    /\ stop_if_static' = sis
    /\ curse' = c
    /\ generations' = {}
    /\ previous_states' = NoArray
    /\ generation0' = generation
    /\ completed' = 0
    /\ rendered' = <<>>
    /\ err' = "none"
    /\ req' = [Request("evolve", N, <<>>, FALSE) EXCEPT !.steps = n]
    /\ UNCHANGED <<constructed, N, states, bc, generation, symbols, disk>>

\* one iteration of the while of FiniteGrid.evolve
evolve_step ==
    /\ pc = "loop"
    /\ loop_continues(n_generations)
    /\ LET prev == IF stop_if_static THEN states ELSE previous_states
           c == count_neighbours(N, states, counts)
           s == apply_rule(N, states, c)
           r == dispatch_bc(N, s, bc)
           g == next_generation(generation, n_generations)
       IN /\ counts' = c
          /\ states' = r.states
          /\ IF r.err # "none"
             THEN \* self.apply_bc() raised: the exception leaves evolve
                  /\ err' = r.err
                  /\ NoFrame
                  /\ UNCHANGED generation
             ELSE /\ generation' = g
                  /\ n_generations' = n_generations - 1
                  /\ generations' =
                        IF \/ np_sum(r.states) = 0
                           \/ (stop_if_static /\ prev = r.states)
                        THEN {0} ELSE generations
                  /\ previous_states' = prev
                  /\ completed' = completed + 1
                  /\ rendered' =
                        LET call == render_call(curse, draw)
                        IN IF call = "none" THEN rendered
                           ELSE Append(rendered,
                                       [call |-> call, generation |-> g,
                                        states |-> r.states,
                                        rows |-> render_rows(N, r.states,
                                                             symbols, FALSE)])
                  /\ UNCHANGED <<pc, draw, stop_if_static, curse, generation0, err>>
    /\ UNCHANGED <<constructed, N, bc, symbols, req, disk>>

\* the while of FiniteGrid.evolve ends and evolve returns
evolve_return ==
    /\ pc = "loop"
    /\ ~loop_continues(n_generations)
    /\ NoFrame
    /\ UNCHANGED <<grid, err, req, disk>>

\* ------------------------------------------------------------- rendering
\* symbols handed to print and curse: None, or the ' x' of bin/evolve.py
SymbolInputs == {None, <<" ", "x">>}

\* self.symbols after "if symbols: self.symbols = symbols"
set_symbols(current, sym) ==
    IF sym # None /\ Len(sym) > 0 THEN sym ELSE current

\* a print that clears the ghost cells it is told not to show
FiniteGrid_print_clearing(boundary, sym) ==
    /\ pc = "idle"
    /\ constructed
    /\ symbols' = set_symbols(symbols, sym)
    /\ states' = IF boundary THEN states ELSE apply_0bc(N, states).states
    /\ err' = "none"
    /\ req' = Request("print", N, <<>>, FALSE)
    /\ UNCHANGED <<constructed, N, bc, generation, counts, frame, disk>>

\* FiniteGrid.print(boundary=boundary, symbols=sym)
FiniteGrid_print(boundary, sym) ==
    /\ pc = "idle"
    /\ constructed
    /\ symbols' = set_symbols(symbols, sym)
    /\ err' = "none"
    /\ req' = Request("print", N, <<>>, FALSE)
    /\ UNCHANGED <<constructed, N, states, bc, generation, counts, frame, disk>>

\* FiniteGrid.curse(stdscr, boundary=boundary, symbols=sym)
FiniteGrid_curse(boundary, sym) ==
    /\ pc = "idle"
    /\ constructed
    /\ symbols' = set_symbols(symbols, sym)
    /\ err' = "none"
    /\ req' = Request("curse", N, <<>>, FALSE)
    /\ UNCHANGED <<constructed, N, states, bc, generation, counts, frame, disk>>

\* ------------------------------------------------------------- dump and load
\* FiniteGrid.dump()
dump ==
    /\ pc = "idle"
    /\ constructed
    /\ counts' = NoArray
    /\ file' = pickle_dump(N, states, bc, generation, symbols)
    /\ dumped' = [N |-> N, states |-> states, bc |-> bc,
                  generation |-> generation, symbols |-> symbols]
    /\ err' = "none"
    /\ req' = Request("dump", N, <<>>, FALSE)
    /\ UNCHANGED <<constructed, N, states, bc, generation, symbols, frame>>

\* the load branch falling through to the initialisation of generation
transfer_and_reset(fg) == [fg EXCEPT !.generation = 0]

\* the attributes FiniteGrid.__init__(load=True) gives self from the object
\* fg that FiniteGrid.load returned: self.__dict__ = fg.__dict__
transfer(fg) == fg

\* FiniteGrid.__init__(load=True), and fg = FiniteGrid.load(): the object
\* the program goes on with is the unpickled one
FiniteGrid_load ==
    /\ pc = "idle"
    /\ req' = Request("load", 0, <<>>, FALSE)
    /\ IF file = NoFile
       THEN \* open() raised
            /\ err' = "FileNotFoundError"
            /\ UNCHANGED grid
       ELSE IF file.class # "FiniteGrid"
       THEN /\ err' = "RuntimeError"
            /\ UNCHANGED grid
       ELSE LET self == transfer(pickle_load(file))
            IN /\ constructed' = TRUE
               /\ N' = self.N
               /\ states' = self.states
               /\ bc' = self.bc
               /\ generation' = self.generation
               /\ counts' = self.counts
               /\ symbols' = self.symbols
               /\ err' = "none"
    /\ UNCHANGED <<frame, disk>>

\* ------------------------------------------------------------- specification
\* a grid of size 1..MaxN is constructed in one of the three modes, its mode is
\* changed or re-applied, and it is evolved
Next ==
    \/ \E n \in 1..MaxN, b \in {ZERO, REFLECT, PERIODIC} :
          \E s0 \in RandomBuffers(n) : FiniteGrid_init(n, b, s0)
    \/ \E arg \in {ZERO, REFLECT, PERIODIC, None} : apply_bc(arg)
    \/ \E n \in 1..MaxSteps, sis \in BOOLEAN : evolve(n, FALSE, sis, FALSE)
    \/ evolve_step
    \/ evolve_return

Spec == Init /\ [][Next]_vars

\* the same with every input: sizes down to -MaxNeg, boundary strings that are
\* prefixes of the names or no name at all, rendering, print and curse
NextInputs ==
    \/ \E n \in SizeInputs, b \in BoundaryInputs :
          \E s0 \in RandomBuffers(n) : FiniteGrid_init(n, b, s0)
    \/ \E arg \in BoundaryInputs \cup {None} : apply_bc(arg)
    \/ \E n \in 1..MaxSteps, d \in BOOLEAN, sis \in BOOLEAN, c \in BOOLEAN :
          evolve(n, d, sis, c)
    \/ evolve_step
    \/ evolve_return
    \/ \E b \in BOOLEAN, sym \in SymbolInputs : FiniteGrid_print(b, sym)
    \/ \E b \in BOOLEAN, sym \in SymbolInputs : FiniteGrid_curse(b, sym)

SpecInputs == Init /\ [][NextInputs]_vars

\* construction, boundary changes, evolution and rendering of a grid that is
\* also dumped and loaded
NextSnap ==
    \/ \E n \in 1..MaxN, b \in {ZERO, REFLECT, PERIODIC} :
          \E s0 \in RandomBuffers(n) : FiniteGrid_init(n, b, s0)
    \/ \E arg \in {ZERO, REFLECT, PERIODIC, None, <<"x">>} : apply_bc(arg)
    \/ \E n \in 1..MaxSteps, sis \in BOOLEAN : evolve(n, FALSE, sis, FALSE)
    \/ evolve_step
    \/ evolve_return
    \/ FiniteGrid_print(FALSE, None)
    \/ FiniteGrid_curse(TRUE, None)
    \/ dump
    \/ FiniteGrid_load

SpecSnap == Init /\ [][NextSnap]_vars

\* a grid in one of the three modes is evolved with and without rendering
NextRender ==
    \/ \E n \in 1..MaxN, b \in {ZERO, REFLECT, PERIODIC} :
          \E s0 \in RandomBuffers(n) : FiniteGrid_init(n, b, s0)
    \/ \E arg \in {ZERO, REFLECT, PERIODIC, None} : apply_bc(arg)
    \/ \E n \in 1..MaxSteps, d \in BOOLEAN, c \in BOOLEAN :
          evolve(n, d, FALSE, c)
    \/ evolve_step
    \/ evolve_return

SpecRender == Init /\ [][NextRender]_vars

\* a grid in one of the three modes is printed, with and without symbols, and
\* evolved with the rendering evolve has by default
NextPrint ==
    \/ \E n \in 1..MaxN, b \in {ZERO, REFLECT, PERIODIC} :
          \E s0 \in RandomBuffers(n) : FiniteGrid_init(n, b, s0)
    \/ \E arg \in {ZERO, REFLECT, PERIODIC, None} : apply_bc(arg)
    \/ \E n \in 1..MaxSteps : evolve(n, TRUE, FALSE, FALSE)
    \/ evolve_step
    \/ evolve_return
    \/ \E b \in BOOLEAN, sym \in SymbolInputs : FiniteGrid_print(b, sym)
    \/ \E b \in BOOLEAN, sym \in SymbolInputs : FiniteGrid_curse(b, sym)

SpecPrint == Init /\ [][NextPrint]_vars

\* the grid of test_evolve1: FiniteGrid(BlinkerN), default boundary 'zero',
\* for every draw of the interior with at most MaxLive live cells
InitBlinker ==
    /\ constructed = TRUE
    /\ N = BlinkerN
    /\ states \in { apply_0bc(BlinkerN, s0).states : s0 \in
                      { s \in RandomBuffers(BlinkerN) :
                          /\ s[<<0, 0>>] = 0
                          /\ SumOver(s, InteriorCells(BlinkerN)) <= MaxLive } }
    /\ bc = ZERO
    /\ generation = 0
    /\ counts = NoArray
    /\ symbols = DefaultSymbols
    /\ pc = "idle"
    /\ n_generations = 0
    /\ draw = FALSE
    /\ stop_if_static = FALSE
    /\ curse = FALSE
    /\ generations = {}
    /\ previous_states = NoArray
    /\ generation0 = 0
    /\ completed = 0
    /\ rendered = <<>>
    /\ err = "none"
    /\ req = Request("init", BlinkerN, ZERO, FALSE)
    /\ file = NoFile
    /\ dumped = NoFile

\* that grid is evolved
NextBlinker ==
    \/ \E n \in 1..MaxSteps, sis \in BOOLEAN : evolve(n, FALSE, sis, FALSE)
    \/ evolve_step
    \/ evolve_return

SpecBlinker == InitBlinker /\ [][NextBlinker]_vars


\* the n_generations handed to evolve, zero and negative ones included
StepInputs == (0 - MaxNegSteps)..MaxSteps

\* a grid in one of the three modes is evolved for any number of steps,
\* with the test for a static grid made in every iteration
NextLive ==
    \/ \E n \in 1..MaxN, b \in {ZERO, REFLECT, PERIODIC} :
          \E s0 \in RandomBuffers(n) : FiniteGrid_init(n, b, s0)
    \/ \E arg \in {ZERO, REFLECT, PERIODIC, None} : apply_bc(arg)
    \/ \E n \in StepInputs : evolve(n, FALSE, TRUE, FALSE)
    \/ evolve_step
    \/ evolve_return

\* ENABLED <<evolve_step>>_vars: the condition of the while holds (an
\* iteration always changes n_generations or leaves the loop)
evolve_step_enabled == pc = "loop" /\ loop_continues(n_generations)

\* evolve is one synchronous call: once entered, the iterations of its while
\* and its return are taken without waiting for anything.  The second
\* conjunct is WF_vars(evolve_step) with its ENABLED written out.
Fairness ==
    /\ WF_vars(evolve_return)
    /\ ([]<>~evolve_step_enabled) \/ ([]<><<evolve_step>>_vars)

SpecLive == Init /\ [][NextLive]_vars /\ Fairness

\* the buffers a caller leaves by assigning cells of fg.states, as the tests
\* do: any interior, and at most MaxGhostLive live ghost cells anywhere
AssignedBuffers(n) ==
    { [p \in Cells(n) |->
          IF p \in InteriorCells(n) THEN interior[p]
          ELSE IF p \in live THEN 1 ELSE 0] :
        interior \in [InteriorCells(n) -> {0, 1}],
        live \in { L \in SUBSET (Cells(n) \ InteriorCells(n)) :
                     Cardinality(L) <= MaxGhostLive } }

\* a grid constructed with the default boundary 'zero' whose buffer the caller
\* has assigned
InitBC ==
    /\ constructed = TRUE
    /\ N \in 1..MaxN
    /\ states \in AssignedBuffers(N)
    /\ bc = ZERO
    /\ generation = 0
    /\ counts = NoArray
    /\ symbols = DefaultSymbols
    /\ pc = "idle"
    /\ n_generations = 0
    /\ draw = FALSE
    /\ stop_if_static = FALSE
    /\ curse = FALSE
    /\ generations = {}
    /\ previous_states = NoArray
    /\ generation0 = 0
    /\ completed = 0
    /\ rendered = <<>>
    /\ err = "none"
    /\ req = Request("init", N, ZERO, FALSE)
    /\ file = NoFile
    /\ dumped = NoFile

\* a boundary condition is applied to that grid
NextBC ==
    \E arg \in {ZERO, REFLECT, PERIODIC, None} : apply_bc(arg)

SpecBC == InitBC /\ [][NextBC]_vars

\* ------------------------------------------------------------- properties
Modes == {ZERO, REFLECT, PERIODIC}

GhostCells(n) == Cells(n) \ InteriorCells(n)

\* no interior cell of s is alive
InteriorDead(n, s) == \A p \in InteriorCells(n) : s[p] = 0

\* s and u agree on every interior cell
SameInterior(n, s, u) == \A p \in InteriorCells(n) : s[p] = u[p]

\* the number of live cells among the 8 cells around p, ghost cells included
LiveNeighbours(s, p) ==
    Cardinality({ q \in DOMAIN s :
                    /\ q # p
                    /\ q[1] - p[1] \in {-1, 0, 1}
                    /\ q[2] - p[2] \in {-1, 0, 1}
                    /\ s[q] = 1 })

\* the ghost cells of s hold what the mode prescribes for the interior of s
\* (the corners of the reflecting mode are left open)
GhostConsistent(n, s, mode) ==
    /\ mode = ZERO => \A p \in GhostCells(n) : s[p] = 0
    /\ mode = REFLECT =>
          \A k \in Inner(n) :
             /\ s[<<k, 0>>] = s[<<k, 1>>]
             /\ s[<<k, n + 1>>] = s[<<k, n>>]
             /\ s[<<0, k>>] = s[<<1, k>>]
             /\ s[<<n + 1, k>>] = s[<<n, k>>]
    /\ mode = PERIODIC =>
          /\ \A k \in Inner(n) :
                /\ s[<<k, 0>>] = s[<<k, n>>]
                /\ s[<<k, n + 1>>] = s[<<k, 1>>]
                /\ s[<<0, k>>] = s[<<n, k>>]
                /\ s[<<n + 1, k>>] = s[<<1, k>>]
          /\ s[<<0, 0>>] = s[<<n, n>>]
          /\ s[<<n + 1, n + 1>>] = s[<<1, 1>>]
          /\ s[<<0, n + 1>>] = s[<<n, 1>>]
          /\ s[<<n + 1, 0>>] = s[<<1, n>>]

\* C1: extinction stop.  Inside evolve, once a step has completed and left the
\* interior all dead, no requested step remains: the while is left.
C1_ExtinctionStop ==
    (pc = "loop" /\ N >= 1 /\ completed >= 1 /\ InteriorDead(N, states))
        => n_generations <= 0

\* C2: static-state stop.  Inside evolve(stop_if_static=True), once a step has
\* completed and left a live interior identical to the snapshot taken before
\* it, no requested step remains: the while is left.
C2_StaticStop ==
    (/\ pc = "loop"
     /\ N >= 1
     /\ stop_if_static
     /\ completed >= 1
     /\ ~InteriorDead(N, states)
     /\ SameInterior(N, states, previous_states))
        => n_generations <= 0

\* C3: rule correctness, cell by cell.  A completed step leaves each interior
\* cell alive iff it was alive with 2 or 3 live neighbours or dead with exactly
\* 3, the neighbours counted, ghost cells included, in the buffer as it was
\* before the step; counts holds those numbers.
C3_RuleCorrect ==
    [][(pc = "loop" /\ completed' = completed + 1) =>
         \A p \in InteriorCells(N) :
            /\ counts'[p] = LiveNeighbours(states, p)
            /\ states'[p] \in {0, 1}
            /\ (states'[p] = 1) <=>
                  \/ states[p] = 1 /\ LiveNeighbours(states, p) \in {2, 3}
                  \/ states[p] = 0 /\ LiveNeighbours(states, p) = 3]_vars

\* a step has just completed in which a cell was born and a cell survived
C3_Witness ==
    /\ pc = "loop"
    /\ stop_if_static
    /\ completed >= 1
    /\ N >= 2
    /\ \E p \in InteriorCells(N) : previous_states[p] = 0 /\ states[p] = 1
    /\ \E p \in InteriorCells(N) : previous_states[p] = 1 /\ states[p] = 1

\* C4: ghost-cell correctness.  Whenever a grid of size N >= 1 is in one of the
\* three modes (after construction, after apply_bc, after every completed
\* step), each ghost cell holds the value the mode prescribes.
C4_GhostCorrect ==
    (constructed /\ N >= 1 /\ bc \in Modes) => GhostConsistent(N, states, bc)

\* a periodic grid after a completed step, with a live corner ghost cell next
\* to a dead edge ghost cell
C4_Witness ==
    /\ pc = "loop"
    /\ completed >= 1
    /\ N >= 2
    /\ bc = PERIODIC
    /\ states[<<0, 0>>] = 1
    /\ states[<<0, 1>>] = 0

\* C5: construction.  FiniteGrid(N, boundary) with N >= 1 and boundary one of
\* the three modes returns, and the grid has size N, that mode, generation 0
\* and a ghost border consistent with the mode.
C5_Construction ==
    (req.op = "init" /\ req.N >= 1 /\ req.boundary \in Modes) =>
        /\ err = "none"
        /\ constructed
        /\ N = req.N
        /\ bc = req.boundary
        /\ generation = 0
        /\ GhostConsistent(N, states, bc)

\* C6: snapshot round trip.  The object restored from the file that dump wrote
\* equals the dumped one in size, boundary mode, generation and every cell of
\* the buffer.
C6_RoundTrip ==
    (req.op = "load" /\ err = "none") =>
        /\ constructed
        /\ N = dumped.N
        /\ bc = dumped.bc
        /\ generation = dumped.generation
        /\ states = dumped.states

\* a reflecting grid restored after at least one step, its buffer not
\* symmetric
C6_Witness ==
    /\ req.op = "load"
    /\ err = "none"
    /\ N >= 2
    /\ bc = REFLECT
    /\ generation >= 1
    /\ states[<<1, 2>>] = 1
    /\ states[<<2, 1>>] = 0

\* C7: an unrecognized boundary string is rejected by exact match.  A
\* constructor (N >= 1) or apply_bc call given a string that is not exactly
\* 'zero', 'reflect' or 'periodic' raises, and the constructor selects no mode:
\* it leaves no grid.
C7_RejectUnrecognized ==
    (/\ req.op \in {"init", "apply_bc"}
     /\ req.N >= 1
     /\ req.boundary # None
     /\ req.boundary \notin Modes) =>
        /\ err # "none"
        /\ req.op = "init" => ~constructed

\* C8: a non-positive size is rejected at construction.  A constructor call
\* with N <= 0 raises, and no grid has N <= 0.
C8_RejectNonPositiveSize ==
    /\ (req.op = "init" /\ req.N <= 0) => err # "none"
    /\ constructed => N >= 1

\* C9: generation counter.  generation is 0 after construction; a completed
\* step adds exactly 1; nothing else (apply_bc, print, curse, dump, entering
\* or leaving evolve) changes it, restoring a snapshot apart; inside evolve it
\* is its value at entry plus the steps completed in the call.
C9_GenerationCounter ==
    [][/\ (req'.op = "init" /\ constructed') => generation' = 0
       /\ completed' = completed + 1 => generation' = generation + 1
       /\ (generation' # generation /\ req'.op \notin {"init", "load"}) =>
             (completed' = completed + 1 /\ generation' = generation + 1)
       /\ pc' = "loop" => generation' = generation0' + completed'
       /\ (pc = "loop" /\ pc' = "idle" /\ err' = "none") =>
             generation' = generation0 + completed]_vars

\* evolve is about to return after two completed steps on a grid that had
\* been dumped
C9_Witness ==
    /\ pc = "loop"
    /\ n_generations = 0
    /\ completed = 2
    /\ generation0 >= 1
    /\ file # NoFile

\* C10: boundary idempotence.  apply_bc applied again with the mode a
\* successful apply_bc has just applied changes no cell of the buffer.
C10_Idempotent ==
    [][(/\ req.op = "apply_bc"
        /\ err = "none"
        /\ N >= 1
        /\ req'.op = "apply_bc"
        /\ pc' = "idle"
        /\ bc' = bc) => states' = states]_vars

\* a reflecting grid with a live ghost corner, after apply_bc re-applied the
\* mode
C10_Witness ==
    /\ req.op = "apply_bc"
    /\ req.repeat
    /\ err = "none"
    /\ N >= 2
    /\ bc = REFLECT
    /\ states[<<0, 0>>] = 1
    /\ states[<<N + 1, N + 1>>] = 0


\* the interior of the N = 3 buffer s is [[0,1,0],[0,1,0],[0,1,0]]
BlinkerColumn(s) ==
    \A p \in InteriorCells(BlinkerN) : s[p] = (IF p[2] = 2 THEN 1 ELSE 0)

\* the interior of the N = 3 buffer s is [[0,0,0],[1,1,1],[0,0,0]]
BlinkerRow(s) ==
    \A p \in InteriorCells(BlinkerN) : s[p] = (IF p[1] = 2 THEN 1 ELSE 0)

\* C11: on the N = 3 grid under the zero boundary, with every ghost cell 0, a
\* completed step of evolve takes the interior [[0,1,0],[0,1,0],[0,1,0]] to
\* [[0,0,0],[1,1,1],[0,0,0]], and takes that interior back to the first
C11_Blinker ==
    [][ ( /\ pc = "loop"
          /\ completed' = completed + 1
          /\ N = BlinkerN
          /\ bc = ZERO
          /\ \A p \in GhostCells(N) : states[p] = 0 )
        => /\ BlinkerColumn(states) => BlinkerRow(states')
           /\ BlinkerRow(states) => BlinkerColumn(states') ]_vars

\* an evolve of the column of three has completed two steps: the step before
\* the last left the row of three, the last one the column again
C11_Witness ==
    /\ pc = "loop"
    /\ N = BlinkerN
    /\ bc = ZERO
    /\ completed = 2
    /\ generation = 2
    /\ stop_if_static
    /\ BlinkerRow(previous_states)
    /\ BlinkerColumn(states)

\* C12: at the head of the loop of an evolve that renders (draw, or a screen
\* given), one rendering was made per completed step, the k-th with
\* generation = generation0 + k and with the buffer as the boundary condition
\* left it, and the last one saw the buffer and the rows of the grid as it is;
\* an evolve that does not render has made none
C12_RenderHook ==
    (pc = "loop") =>
        IF draw \/ curse
        THEN /\ Len(rendered) = completed
             /\ \A k \in 1..Len(rendered) :
                   /\ rendered[k].generation = generation0 + k
                   /\ rendered[k].call = (IF curse THEN "curse" ELSE "print")
                   /\ bc \in Modes => GhostConsistent(N, rendered[k].states, bc)
             /\ completed >= 1 =>
                   /\ rendered[completed].states = states
                   /\ rendered[completed].rows
                        = render_rows(N, states, symbols, FALSE)
        ELSE rendered = <<>>

\* an evolve of two steps given a screen is at the head of its loop after the
\* second step, on a grid that had evolved before, with a live cell drawn
C12_Witness ==
    /\ pc = "loop"
    /\ curse
    /\ ~draw
    /\ completed = 2
    /\ generation0 >= 1
    /\ Len(rendered) = 2
    /\ rendered[2].generation = generation0 + 2
    /\ \E i \in Inner(N), j \in Inner(N) : rendered[2].rows[i][j] = "X"

\* C13: apply_bc(m) with m one of the three modes stores m and leaves the
\* ghost cells as m prescribes; apply_bc() keeps the stored mode and leaves
\* the ghost cells as it prescribes; either leaves every interior cell, N and
\* generation as they were
C13_ModeSwitch ==
    [][ (req'.op = "apply_bc" /\ N >= 1)
        => /\ req'.boundary \in Modes
                => /\ err' = "none"
                   /\ bc' = req'.boundary
                   /\ GhostConsistent(N, states', req'.boundary)
           /\ req'.boundary = None
                => /\ bc' = bc
                   /\ bc \in Modes => /\ err' = "none"
                                      /\ GhostConsistent(N, states', bc)
           /\ req'.boundary \in Modes \cup {None}
                => /\ SameInterior(N, states, states')
                   /\ N' = N
                   /\ generation' = generation ]_vars

\* apply_bc('reflect') has changed the ghost cells of a grid that has evolved
\* and has live and dead interior cells
C13_Witness ==
    /\ req.op = "apply_bc"
    /\ req.boundary = REFLECT
    /\ bc = REFLECT
    /\ err = "none"
    /\ N = 2
    /\ generation >= 1
    /\ req.before # states
    /\ SameInterior(N, req.before, states)
    /\ ~InteriorDead(N, states)
    /\ \E p \in InteriorCells(N) : states[p] = 0

\* the buffer with the interior of s and every ghost cell g
WithGhosts(n, s, g) ==
    [p \in Cells(n) |-> IF p \in InteriorCells(n) THEN s[p] ELSE g]

\* C14: in reflect mode each corner ghost cell equals the interior corner
\* cell diagonally next to it
C14_ReflectCorners ==
    (constructed /\ N >= 1 /\ bc = REFLECT)
    => /\ states[<<0, 0>>] = states[<<1, 1>>]
       /\ states[<<0, N + 1>>] = states[<<1, N>>]
       /\ states[<<N + 1, 0>>] = states[<<N, 1>>]
       /\ states[<<N + 1, N + 1>>] = states[<<N, N>>]

\* apply_bc('reflect') found the corner [0,0] and the ghost cell [0,1] it is
\* copied from dead, and left the corner alive as the interior cell [1,1] is
C14_Witness ==
    /\ req.op = "apply_bc"
    /\ req.boundary = REFLECT
    /\ bc = REFLECT
    /\ err = "none"
    /\ N = 2
    /\ req.before[<<0, 0>>] = 0
    /\ req.before[<<0, 1>>] = 0
    /\ states[<<1, 1>>] = 1
    /\ states[<<0, 0>>] = 1
    /\ states[<<2, 2>>] = 0
    /\ states[<<3, 3>>] = 0

\* C15: what apply_bc leaves in the buffer, in each of the three modes, is
\* what it leaves in the buffer with the same interior and every ghost cell
\* dead, and in the one with every ghost cell alive
C15_GhostIndependent ==
    [][ (req'.op = "apply_bc" /\ N >= 1 /\ bc' \in Modes)
        => \A g \in {0, 1} :
             states' = dispatch_bc(N, WithGhosts(N, states, g), bc').states ]_vars

\* apply_bc('reflect') found a live ghost cell at [0,1], which the corner
\* [0,0] is first copied from, and left that cell and the corner dead as the
\* interior cell [1,1] is
C15_Witness ==
    /\ req.op = "apply_bc"
    /\ bc = REFLECT
    /\ N = 2
    /\ req.before[<<0, 1>>] = 1
    /\ states[<<1, 1>>] = 0
    /\ states[<<0, 1>>] = 0
    /\ states[<<0, 0>>] = 0
    /\ ~InteriorDead(N, states)

\* C16: the buffer of a grid has the (N+2) x (N+2) cells [0..N+1, 0..N+1],
\* and each of them, interior or ghost, holds 0 or 1
C16_BinaryCells ==
    constructed =>
        /\ DOMAIN states = Cells(N)
        /\ \A p \in Cells(N) : states[p] \in {0, 1}

\* a grid that was evolved, dumped, loaded and evolved again, with live and
\* dead cells in its interior and a live ghost cell
C16_Witness ==
    /\ constructed
    /\ pc = "idle"
    /\ req.op = "evolve"
    /\ file # NoFile
    /\ file.generation >= 1
    /\ generation > file.generation
    /\ \E p \in InteriorCells(N) : states[p] = 1
    /\ \E p \in InteriorCells(N) : states[p] = 0
    /\ \E p \in GhostCells(N) : states[p] = 1

\* C17: print and curse leave the buffer, N, the boundary mode and generation
\* as they were, and self.symbols either as it was or as the two symbols they
\* were given; an iteration of evolve leaves self.symbols as it was, and the
\* buffer and generation it leaves are those computed from N, the buffer and
\* the boundary mode alone
C17_RenderingFrame ==
    [][ /\ req'.op \in {"print", "curse"}
             => /\ states' = states
                /\ N' = N
                /\ bc' = bc
                /\ generation' = generation
                /\ constructed' = constructed
                /\ symbols' \in {symbols} \cup (SymbolInputs \ {None})
                /\ Len(symbols') = 2
        /\ (pc = "loop" /\ completed' = completed + 1)
             => /\ symbols' = symbols
                /\ generation' = generation + 1
                /\ states' =
                     dispatch_bc(N,
                                 apply_rule(N, states,
                                     count_neighbours(N, states,
                                                      zeros_like(states))),
                                 bc).states ]_vars

\* a grid printed with symbols ' x' has then been evolved with rendering: the
\* step drew a live cell as 'x' and left a buffer with live ghost cells
C17_Witness ==
    /\ pc = "loop"
    /\ completed >= 1
    /\ symbols = <<" ", "x">>
    /\ req.op = "evolve"
    /\ Len(rendered) >= 1
    /\ \E i \in Inner(N), j \in Inner(N) : rendered[1].rows[i][j] = "x"
    /\ \E p \in GhostCells(N) : states[p] = 1

\* C18: an apply_bc that raises ValueError for an unrecognized argument leaves
\* the stored boundary mode and every cell of the buffer as they were
C18_RejectedModeUnchanged ==
    [][ (req'.op = "apply_bc" /\ err' = "ValueError" /\ N >= 1)
        => /\ bc' = bc
           /\ states' = states ]_vars

\* C19: a step that changes an interior cell of a constructed grid increments
\* generation
C19_GenerationCountsRule ==
    [][ (constructed /\ N >= 1 /\ ~SameInterior(N, states, states'))
        => generation' = generation + 1 ]_vars

\* max(n, 0)
AtLeastZero(n) == IF n > 0 THEN n ELSE 0

\* C20: an evolve(n) on a grid in one of the three modes has, at the head of
\* its loop, completed max(n, 0) steps less the ones still to do, and none
\* when n <= 0; entering the loop and leaving it change neither the buffer
\* nor generation; and an evolve that was entered returns
C20_Terminates ==
    /\ [] ( (pc = "loop")
             => /\ completed <= AtLeastZero(req.steps)
                /\ completed + AtLeastZero(n_generations)
                     = AtLeastZero(req.steps)
                /\ req.steps <= 0 => /\ completed = 0
                                     /\ generation = generation0 )
    /\ [][ ( \/ (pc = "idle" /\ pc' = "loop")
              \/ (pc = "loop" /\ pc' = "idle") )
            => /\ states' = states
               /\ generation' = generation ]_vars
    /\ ( (pc = "loop") ~> (pc = "idle" /\ err = "none") )

\* evolve(-1) has returned on a grid that had evolved two generations and has
\* live interior cells
C20_Witness ==
    /\ pc = "idle"
    /\ req.op = "evolve"
    /\ req.steps < 0
    /\ err = "none"
    /\ generation = 2
    /\ counts # NoArray
    /\ ~InteriorDead(N, states)
====
